---- MODULE Spec2Model ----
(***************************************************************************)
(* Model of script.js, the client-side JPG -> PNG converter.               *)
(*                                                                         *)
(* The page is one cooperative execution context.  Every action below is   *)
(* one task of the event loop: an event handler or timer callback together *)
(* with the microtasks (await continuations) it makes runnable, which the  *)
(* event loop runs before any other task.                                  *)
(***************************************************************************)
EXTENDS Integers, Sequences, FiniteSets, TLC

(***************************************************************************)
(* Bounds of the model.                                                    *)
(***************************************************************************)
\* number of convert clicks that pass the currentFile check
MaxConv == 2
\* number of change / drop events delivered to the page
MaxInputs == 2

(***************************************************************************)
(* Program constants.                                                      *)
(***************************************************************************)
MAX_DIMENSION == 4096
LOAD_TIMEOUT_MS == 15000
RESET_DELAY_MS == 400
DOWNLOAD_CLEANUP_MS == 250

\* null, for a File
NULL == "null"
\* null or the empty string, for an object URL
NO_URL == 0

(***************************************************************************)
(* Strings are sequences of one-character strings.                         *)
(***************************************************************************)
Upper == <<"A","B","C","D","E","F","G","H","I","J","K","L","M",
           "N","O","P","Q","R","S","T","U","V","W","X","Y","Z">>
Lower == <<"a","b","c","d","e","f","g","h","i","j","k","l","m",
           "n","o","p","q","r","s","t","u","v","w","x","y","z">>

\* String.prototype.toLowerCase, one character
lowerChar(c) ==
  IF \E i \in 1..26 : Upper[i] = c
  THEN Lower[CHOOSE i \in 1..26 : Upper[i] = c]
  ELSE c

\* String.prototype.toLowerCase
toLowerCase(s) == [i \in 1..Len(s) |-> lowerChar(s[i])]

\* index of the last "." of s, 0 when s has none
lastDot(s) ==
  IF \E i \in 1..Len(s) : s[i] = "."
  THEN CHOOSE i \in 1..Len(s) : s[i] = "." /\ \A j \in (i+1)..Len(s) : s[j] # "."
  ELSE 0

\* name.split('.').pop(): what follows the last ".", the whole name without one
splitPop(s) == SubSeq(s, lastDot(s) + 1, Len(s))

\* s.replace(/\.[^/.]+$/, ''): drops a final "." followed by one or more
\* characters none of which is "/" or "."
stripExtension(s) ==
  LET d == lastDot(s) IN
  IF d > 0 /\ d < Len(s) /\ \A j \in (d+1)..Len(s) : s[j] # "/"
  THEN SubSeq(s, 1, d - 1)
  ELSE s

(***************************************************************************)
(* The files the user can supply.  A file is named by an identifier; its   *)
(* attributes are the File object's name, size and type, and what the      *)
(* browser's JPEG decoder makes of its bytes.                              *)
(***************************************************************************)
Files == {"photo", "huge", "bad", "pdf"}

FileName(f) ==
  CASE f = "photo" -> <<"p","h","o","t","o",".","J","P","G">>
    [] f = "huge"  -> <<"h","u","g","e",".","j","p","g">>
    [] f = "bad"   -> <<"b","a","d",".","j","p","e","g">>
    [] f = "pdf"   -> <<"d","o","c",".","p","d","f">>

FileSize(f) ==
  CASE f = "photo" -> 500000
    [] f = "huge"  -> 9000000
    [] f = "bad"   -> 1023
    [] f = "pdf"   -> 20000

FileType(f) ==
  CASE f = "pdf" -> "application/pdf"
    [] OTHER     -> "image/jpeg"

\* whether the bytes decode as an image
Decodable(f) == f \in {"photo", "huge"}

NaturalWidth(f) ==
  CASE f = "photo" -> 3000
    [] f = "huge"  -> 8000
    [] OTHER       -> 0

NaturalHeight(f) ==
  CASE f = "photo" -> 2000
    [] f = "huge"  -> 4000
    [] OTHER       -> 0

\* the FileList values a change or drop event can carry
FileLists == {<<>>} \cup {<<f>> : f \in Files} \cup {<<"photo", "pdf">>}

(***************************************************************************)
(* IEEE-754 binary64 arithmetic, as far as calculateTargetSize uses it:    *)
(* the quotient of two positive integers below 2^15, the product of such   *)
(* an integer and a double, Math.min and Math.floor.                       *)
(*                                                                         *)
(* A positive double is [m, e].  m is its 53-bit significand, written as   *)
(* <<1, d1, d2, d3, d4>>: the leading 1 followed by four 13-bit limbs, so  *)
(* that sigValue = 2^52 + d1*2^39 + d2*2^26 + d3*2^13 + d4, and the value  *)
(* of the double is sigValue * 2^e.  Every operation rounds to nearest,    *)
(* ties to even.                                                           *)
(***************************************************************************)
LIMB_BITS == 13
LIMB == 2 ^ LIMB_BITS
FRACTION_LIMBS == 4

\* number of binary digits of n > 0
bitLength(n) == CHOOSE k \in 1..31 : 2 ^ (k - 1) <= n /\ (k = 31 \/ n < 2 ^ k)

\* significand + 1 when roundUp; a carry out of the 53 bits renormalises
roundSignificand(m, e, roundUp) ==
  IF ~roundUp THEN [m |-> m, e |-> e]
  ELSE IF \A i \in 2..Len(m) : m[i] = LIMB - 1
  THEN [m |-> [i \in 1..Len(m) |-> IF i = 1 THEN 1 ELSE 0], e |-> e + 1]
  ELSE LET z == CHOOSE i \in 2..Len(m) :
                  m[i] # LIMB - 1 /\ \A j \in (i + 1)..Len(m) : m[j] = LIMB - 1
       IN [m |-> [i \in 1..Len(m) |->
                    IF i < z THEN m[i] ELSE IF i = z THEN m[i] + 1 ELSE 0],
           e |-> e]

RECURSIVE divLimbs(_, _, _)
\* long division: the next n limbs of r / b, and the remainder left
divLimbs(r, b, n) ==
  IF n = 0 THEN [q |-> <<>>, r |-> r]
  ELSE LET rest == divLimbs((r * LIMB) % b, b, n - 1)
       IN [q |-> <<(r * LIMB) \div b>> \o rest.q, r |-> rest.r]

\* Infinity, written as the first power of two no double holds
INFINITY == [m |-> <<1, 0, 0, 0, 0>>, e |-> 1024 - FRACTION_LIMBS * LIMB_BITS]

\* +0
ZERO == [m |-> <<0, 0, 0, 0, 0>>, e |-> -1074]

\* the double a / b, for integers 0 < a < 2^15 and 0 <= b < 2^15
floatDiv(a, b) ==
  IF b = 0 THEN INFINITY ELSE
  LET \* 2^t <= a / b < 2^(t+1)
      t  == CHOOSE k \in -15..15 :
              IF k >= 0 THEN b * (2 ^ k) <= a /\ a < b * (2 ^ (k + 1))
                        ELSE b <= a * (2 ^ (-k)) /\ a * (2 ^ (-k)) < 2 * b
      a0 == IF t < 0 THEN a * (2 ^ (-t)) ELSE a
      b0 == IF t > 0 THEN b * (2 ^ t) ELSE b
      d  == divLimbs(a0 - b0, b0, FRACTION_LIMBS)
      m  == <<1>> \o d.q
  IN roundSignificand(m, t - FRACTION_LIMBS * LIMB_BITS,
        2 * d.r > b0 \/ (2 * d.r = b0 /\ m[Len(m)] % 2 = 1))

RECURSIVE mulLimbs(_, _, _, _)
\* the limbs of (the first n limbs of m) * w + carry; the first limb of the
\* result is not reduced
mulLimbs(m, n, w, carry) ==
  IF n = 1 THEN <<m[1] * w + carry>>
  ELSE LET t == m[n] * w + carry
       IN Append(mulLimbs(m, n - 1, w, t \div LIMB), t % LIMB)

\* p shifted right by s <= LIMB_BITS binary digits
shiftRight(p, s) ==
  [i \in 1..Len(p) |->
     IF i = 1 THEN p[1] \div (2 ^ s)
     ELSE (p[i - 1] % (2 ^ s)) * (2 ^ (LIMB_BITS - s)) + (p[i] \div (2 ^ s))]

\* the double w * x, for an integer 0 <= w < 2^15 and a finite double x
floatMul(w, x) ==
  IF w = 0 THEN ZERO ELSE
  LET p  == mulLimbs(x.m, Len(x.m), w, 0)
      \* binary digits to drop to get back to 53
      sh == bitLength(p[1]) - 1
      s1 == IF sh > LIMB_BITS THEN LIMB_BITS ELSE sh
      s2 == sh - s1
      p1 == shiftRight(p, s1)
      p2 == shiftRight(p1, s2)
      dropped == (p1[Len(p1)] % (2 ^ s2)) * (2 ^ s1) + (p[Len(p)] % (2 ^ s1))
  IN IF sh = 0 THEN [m |-> p, e |-> x.e]
     ELSE roundSignificand(p2, x.e + sh,
            \/ dropped > 2 ^ (sh - 1)
            \/ dropped = 2 ^ (sh - 1) /\ p2[Len(p2)] % 2 = 1)

\* x < y
floatLess(x, y) ==
  \/ x.e < y.e
  \/ /\ x.e = y.e
     /\ \E i \in 1..Len(x.m) :
          /\ x.m[i] < y.m[i]
          /\ \A j \in 1..(i - 1) : x.m[j] = y.m[j]

\* Math.min
floatMin(x, y) == IF floatLess(y, x) THEN y ELSE x

RECURSIVE limbsToNat(_, _)
\* the number written by the first n limbs of m
limbsToNat(m, n) == IF n = 0 THEN 0 ELSE limbsToNat(m, n - 1) * LIMB + m[n]

\* Math.floor of a double below 2^27
floatFloor(x) ==
  LET s == -x.e
      n == s \div LIMB_BITS
  IN IF n >= Len(x.m) THEN 0
     ELSE limbsToNat(x.m, Len(x.m) - n) \div (2 ^ (s % LIMB_BITS))

\* Math.min in the place of Math.max
intMaxPicksSmaller(a, b) == IF a <= b THEN a ELSE b

\* Math.max on integers
intMax(a, b) == IF a >= b THEN a ELSE b

(***************************************************************************)
(* calculateTargetSize(width, height, maxDim)                              *)
(***************************************************************************)
\* calculateTargetSize without the early return for an image that fits
calculateTargetSizeAlwaysScales(width, height, maxDim) ==
  LET scale == floatMin(floatDiv(maxDim, width), floatDiv(maxDim, height))
  IN [width  |-> intMax(1, floatFloor(floatMul(width, scale))),
      height |-> intMax(1, floatFloor(floatMul(height, scale)))]

calculateTargetSize(width, height, maxDim) ==
  IF width <= maxDim /\ height <= maxDim
  THEN [width |-> width, height |-> height]
  ELSE LET scale == floatMin(floatDiv(maxDim, width), floatDiv(maxDim, height))
       IN [width  |-> intMax(1, floatFloor(floatMul(width, scale))),
           height |-> intMax(1, floatFloor(floatMul(height, scale)))]

(***************************************************************************)
(* Messages                                                                *)
(***************************************************************************)
MSG_NO_FILE == "No file"
MSG_INVALID_FILE == "Invalid file. Please upload a JPG or JPEG image."
MSG_NO_FILE_SELECTED == "No file selected."
MSG_TIMED_OUT == "Image load timed out."
MSG_READ_FAILED == "Failed to read image data."
MSG_INVALID_IMAGE == "Invalid image for conversion."
MSG_NO_OUTPUT == "Conversion failed (no output)."
\* message of the TypeError a read of currentFile.name raises when
\* currentFile is null; its wording is the engine's
MSG_TYPE_ERROR == "TypeError: currentFile is null"
TXT_NO_FILE_SELECTED == "No file selected"
TXT_READY == "Ready to convert"
TXT_DOWNLOADED == "Downloaded (check mark)"

DOT_PNG == <<".", "p", "n", "g">>
IMAGE == <<"i", "m", "a", "g", "e">>
JPG == <<"j", "p", "g">>
JPEG == <<"j", "p", "e", "g">>

(***************************************************************************)
(* State.                                                                  *)
(*   page      the globals currentFile and currentObjectUrl, the           *)
(*             properties of the DOM elements the script reads or writes,  *)
(*             and the object URLs that are live (created, not revoked)    *)
(*   conv      one record per invocation of onConvertClicked that passed   *)
(*             the currentFile check: where it is suspended, and the       *)
(*             locals of loadImageFromFile and convertImageToPng           *)
(*   nconv     number of such invocations so far                           *)
(*   timers    the pending setTimeout callbacks, in the order armed        *)
(*   downloads the downloads triggered so far                              *)
(*   nInputs   number of change / drop events so far                       *)
(*   call      a direct call of one of the script's functions: its         *)
(*             arguments and, once it has returned, its result; NoCall     *)
(*             while the page runs from its events                         *)
(***************************************************************************)
VARIABLES page, conv, nconv, timers, downloads, nInputs, call

vars == <<page, conv, nconv, timers, downloads, nInputs, call>>

NoCall == [fn |-> "none", returned |-> FALSE]

ConvIds == 1..MaxConv

IdleConv ==
  [pc |-> "idle", startFile |-> NULL, startUrl |-> NO_URL,
   loadFile |-> NULL, tmpUrl |-> NO_URL, timedOut |-> FALSE, decode |-> "none",
   settles |-> 0, revokes |-> 0, loadResult |-> "", revokedAtSettle |-> FALSE,
   pixels |-> NULL, canvas |-> [width |-> 0, height |-> 0],
   target |-> [width |-> 0, height |-> 0],
   canvasAtSettle |-> [width |-> 0, height |-> 0],
   encoded |-> FALSE, outcome |-> ""]

(***************************************************************************)
(* URL.createObjectURL / URL.revokeObjectURL                               *)
(***************************************************************************)
createObjectURL(p, kind, file) ==
  [p EXCEPT !.urls = @ \cup {[id |-> p.nextUrl, kind |-> kind, file |-> file]},
            !.nextUrl = @ + 1]

revokeObjectURL(p, id) ==
  [p EXCEPT !.urls = {u \in @ : u.id # id}]

(***************************************************************************)
(* showError / clearError                                                  *)
(***************************************************************************)
showError(p, message) ==
  [p EXCEPT !.errorMsg = message, !.fileInfoAriaHidden = TRUE]

clearError(p) ==
  [p EXCEPT !.errorMsg = "", !.fileInfoAriaHidden = FALSE]

(***************************************************************************)
(* validateFile                                                            *)
(***************************************************************************)
\* validateFile on what the File object reports: whether there is one, its
\* name and its type
validateFileObject(present, name, mime) ==
  IF ~present THEN [ok |-> FALSE, reason |-> MSG_NO_FILE]
  ELSE LET ext == toLowerCase(splitPop(name))
       IN IF ext \notin {JPG, JPEG} \/ mime \notin {"image/jpeg"}
          THEN [ok |-> FALSE, reason |-> MSG_INVALID_FILE]
          ELSE [ok |-> TRUE, reason |-> ""]

validateFile(file) ==
  validateFileObject(file # NULL,
                     IF file # NULL THEN FileName(file) ELSE <<>>,
                     IF file # NULL THEN FileType(file) ELSE "")

(***************************************************************************)
(* cleanupPreview / showPreview                                            *)
(* detailFile stands for detailName and detailSize: the file whose name    *)
(* and formatted size they show.                                           *)
(***************************************************************************)
cleanupPreview(p) ==
  LET p1 == IF p.currentObjectUrl # NO_URL
            THEN [revokeObjectURL(p, p.currentObjectUrl)
                    EXCEPT !.currentObjectUrl = NO_URL]
            ELSE p
  IN [p1 EXCEPT !.previewSrc = NO_URL, !.previewState = "empty",
                !.previewFile = NULL, !.previewWrapHidden = TRUE,
                !.detailFile = NULL]

\* showPreview without the release of the previous preview URL
showPreviewLeaks(p, file) ==
  LET p1 == clearError(p)
      p2 == createObjectURL(p1, "preview", file)
  IN [p2 EXCEPT !.currentObjectUrl = p1.nextUrl,
                !.previewSrc = p1.nextUrl, !.previewState = "loading",
                !.previewFile = file, !.detailFile = file,
                !.previewWrapHidden = FALSE]

showPreview(p, file) ==
  LET p1 == clearError(cleanupPreview(p))
      p2 == createObjectURL(p1, "preview", file)
  IN [p2 EXCEPT !.currentObjectUrl = p1.nextUrl,
                !.previewSrc = p1.nextUrl, !.previewState = "loading",
                !.previewFile = file, !.detailFile = file,
                !.previewWrapHidden = FALSE]

\* previewImg.complete and previewImg.naturalWidth
previewComplete(p) == p.previewState # "loading"
previewNaturalWidth(p) ==
  IF p.previewState = "loaded" THEN NaturalWidth(p.previewFile) ELSE 0
previewNaturalHeight(p) ==
  IF p.previewState = "loaded" THEN NaturalHeight(p.previewFile) ELSE 0

(***************************************************************************)
(* resetUI / setLoading                                                    *)
(***************************************************************************)
\* resetUI without the call of cleanupPreview
resetUIKeepsPreview(p) ==
  [clearError([p EXCEPT !.currentFile = NULL, !.fileInputValue = ""])
     EXCEPT !.fileInfoText = TXT_NO_FILE_SELECTED,
            !.convertDisabled = TRUE,
            !.resetAriaDisabled = TRUE,
            !.loaderHidden = TRUE]

\* resetUI without convertBtn.disabled = true
resetUILeavesConvertEnabled(p) ==
  [clearError([cleanupPreview(p) EXCEPT !.currentFile = NULL,
                                        !.fileInputValue = ""])
     EXCEPT !.fileInfoText = TXT_NO_FILE_SELECTED,
            !.resetAriaDisabled = TRUE,
            !.loaderHidden = TRUE]

resetUI(p) ==
  [clearError([cleanupPreview(p) EXCEPT !.currentFile = NULL,
                                        !.fileInputValue = ""])
     EXCEPT !.fileInfoText = TXT_NO_FILE_SELECTED,
            !.convertDisabled = TRUE,
            !.resetAriaDisabled = TRUE,
            !.loaderHidden = TRUE]

setLoading(p, isLoading) ==
  IF isLoading
  THEN [p EXCEPT !.loaderHidden = FALSE, !.convertDisabled = TRUE,
                 !.resetDisabled = TRUE, !.convertAriaBusy = TRUE]
  ELSE [p EXCEPT !.loaderHidden = TRUE, !.convertAriaBusy = FALSE,
                 !.convertDisabled = IF p.currentFile # NULL THEN FALSE ELSE @,
                 !.resetDisabled = FALSE]

(***************************************************************************)
(* handleFiles                                                             *)
(***************************************************************************)
isDuplicate(p, file) ==
  /\ p.currentFile # NULL
  /\ FileName(file) = FileName(p.currentFile)
  /\ FileSize(file) = FileSize(p.currentFile)

\* handleFiles without the test for a duplicate of the current file
handleFilesNoDuplicateTest(p, files) ==
  IF Len(files) = 0 THEN p
  ELSE LET file == files[1]
           valid == validateFile(file)
       IN IF ~valid.ok THEN showError(p, valid.reason)
          ELSE [showPreview([p EXCEPT !.currentFile = file], file)
                  EXCEPT !.fileInfoText = TXT_READY,
                         !.convertDisabled = FALSE,
                         !.resetAriaDisabled = FALSE]

\* handleFiles discarding the selection when the validator rejects
handleFilesResetsOnReject(p, files) ==
  IF Len(files) = 0 THEN p
  ELSE LET file == files[1]
           valid == validateFile(file)
       IN IF isDuplicate(p, file) THEN p
          ELSE IF ~valid.ok THEN showError(resetUI(p), valid.reason)
          ELSE [showPreview([p EXCEPT !.currentFile = file], file)
                  EXCEPT !.fileInfoText = TXT_READY,
                         !.convertDisabled = FALSE,
                         !.resetAriaDisabled = FALSE]

handleFiles(p, files) ==
  IF Len(files) = 0 THEN p
  ELSE LET file == files[1]
           valid == validateFile(file)
       IN IF isDuplicate(p, file) THEN p
          ELSE IF ~valid.ok THEN showError(p, valid.reason)
          ELSE [showPreview([p EXCEPT !.currentFile = file], file)
                  EXCEPT !.fileInfoText = TXT_READY,
                         !.convertDisabled = FALSE,
                         !.resetAriaDisabled = FALSE]

(***************************************************************************)
(* Timers.  setTimeout appends; a pending callback runs only after every   *)
(* callback armed before it with a delay no longer than its own.           *)
(***************************************************************************)
setTimeout(ts, kind, ref, delay) ==
  Append(ts, [kind |-> kind, ref |-> ref, delay |-> delay])

removeAt(ts, k) ==
  [j \in 1..(Len(ts) - 1) |-> IF j < k THEN ts[j] ELSE ts[j + 1]]

clearTimeout(ts, kind, ref) ==
  SelectSeq(ts, LAMBDA t : ~(t.kind = kind /\ t.ref = ref))

timerDue(ts, k) == \A j \in 1..(k - 1) : ts[j].delay > ts[k].delay

(***************************************************************************)
(* onConvertClicked, from the point where the image is at hand.            *)
(* Each operator yields the page and the invocation's record after the     *)
(* synchronous run that ends at the next await or at the finally block.    *)
(***************************************************************************)
\* the catch block without the finally block
failConversionWithoutFinally(p, c, message) ==
  [page |-> showError(p, message),
   c    |-> [c EXCEPT !.pc = "done", !.outcome = message]]

\* catch block and finally block (lines 273-278)
failConversion(p, c, message) ==
  [page |-> setLoading(showError(p, message), FALSE),
   c    |-> [c EXCEPT !.pc = "done", !.outcome = message]]

\* convertImageToPng up to the call of canvas.toBlob (lines 134-156); an
\* exception goes to the catch block of onConvertClicked
awaitConvertImageToPng(p, c, imgFile, naturalWidth, naturalHeight) ==
  IF imgFile = NULL \/ naturalWidth = 0
  THEN failConversion(p, c, MSG_INVALID_IMAGE)
  ELSE LET t == calculateTargetSize(naturalWidth, naturalHeight, MAX_DIMENSION)
       IN [page |-> p,
           c    |-> [c EXCEPT !.pc = "encode", !.pixels = imgFile,
                              !.target = t, !.canvas = t]]

\* a call of resolve or reject of the promise of loadImageFromFile
settleLoad(p, c, result) ==
  [c EXCEPT !.settles = @ + 1,
            !.loadResult = IF @ = "" THEN result ELSE @,
            !.revokedAtSettle =
               IF c.settles = 0
               THEN \A u \in p.urls : u.id # c.tmpUrl
               ELSE @]

\* try { URL.revokeObjectURL(tmpUrl) } catch (e) {}
\* the release of the temporary URL left out
revokeTmpUrlSkipped(p, c) == [page |-> p, c |-> c]

revokeTmpUrl(p, c) ==
  [page |-> revokeObjectURL(p, c.tmpUrl),
   c    |-> [c EXCEPT !.revokes = @ + 1]]

\* the page once init has run; the disabled property of the reset button is
\* what the document gives it, the script does not set it
initialPage(resetDisabled) ==
  [currentFile |-> NULL, currentObjectUrl |-> NO_URL,
   urls |-> {}, nextUrl |-> 1,
   errorMsg |-> "", fileInfoText |-> TXT_NO_FILE_SELECTED,
   fileInfoAriaHidden |-> FALSE,
   convertDisabled |-> TRUE, convertAriaBusy |-> FALSE,
   resetDisabled |-> resetDisabled, resetAriaDisabled |-> TRUE,
   loaderHidden |-> TRUE, fileInputValue |-> "",
   previewSrc |-> NO_URL, previewState |-> "empty",
   previewFile |-> NULL, previewWrapHidden |-> TRUE,
   detailFile |-> NULL]

Init ==
  /\ \E rd \in BOOLEAN : page = initialPage(rd)
  /\ conv = [i \in ConvIds |-> IdleConv]
  /\ nconv = 0
  /\ timers = <<>>
  /\ downloads = <<>>
  /\ nInputs = 0
  /\ call = NoCall

(***************************************************************************)
(* change event of the file input (lines 306-310).  The browser has set    *)
(* the input's value before the handler runs; the script only ever assigns *)
(* '' to it, so the model keeps whether the value is empty.                *)
(***************************************************************************)
fakepath(files) == IF Len(files) = 0 THEN "" ELSE "C:\\fakepath\\"

Change(files) ==
  /\ nInputs < MaxInputs
  /\ page' = handleFiles(
                clearError([page EXCEPT !.fileInputValue = fakepath(files)]),
                files)
  /\ nInputs' = nInputs + 1
  /\ UNCHANGED <<conv, nconv, timers, downloads, call>>

(***************************************************************************)
(* onDrop                                                                  *)
(***************************************************************************)
Drop(files) ==
  /\ nInputs < MaxInputs
  /\ page' = IF Len(files) # 0 THEN handleFiles(page, files) ELSE page
  /\ nInputs' = nInputs + 1
  /\ UNCHANGED <<conv, nconv, timers, downloads, call>>

(***************************************************************************)
(* The browser finishes decoding the preview image: previewImg.complete    *)
(* becomes true, and naturalWidth non-zero when the bytes decode.          *)
(***************************************************************************)
PreviewDecoded ==
  /\ page.previewState = "loading"
  /\ page' = [page EXCEPT !.previewState =
                IF Decodable(page.previewFile) THEN "loaded" ELSE "broken"]
  /\ UNCHANGED <<conv, nconv, timers, downloads, nInputs, call>>

(***************************************************************************)
(* click on the convert button: onConvertClicked up to its first await     *)
(***************************************************************************)
ConvertClick ==
  /\ ~page.convertDisabled
  /\ IF page.currentFile = NULL
     THEN /\ page' = showError(page, MSG_NO_FILE_SELECTED)
          /\ UNCHANGED <<conv, nconv, timers>>
     ELSE /\ nconv < MaxConv
          /\ LET i  == nconv + 1
                 p1 == clearError(setLoading(page, TRUE))
                 c1 == [conv[i] EXCEPT !.startFile = page.currentFile,
                                       !.startUrl = page.currentObjectUrl]
             IN IF p1.previewSrc # NO_URL /\ previewComplete(p1)
                   /\ previewNaturalWidth(p1) # 0
                THEN LET r == awaitConvertImageToPng(p1, c1, p1.previewFile,
                                 previewNaturalWidth(p1),
                                 previewNaturalHeight(p1))
                     IN /\ page' = r.page
                        /\ conv' = [conv EXCEPT ![i] = r.c]
                        /\ timers' = timers
                ELSE \* loadImageFromFile(currentFile), lines 91-120
                     LET p2 == createObjectURL(p1, "tmp", p1.currentFile)
                     IN /\ page' = p2
                        /\ conv' = [conv EXCEPT ![i] =
                              [c1 EXCEPT !.pc = "load",
                                         !.loadFile = p1.currentFile,
                                         !.tmpUrl = p1.nextUrl,
                                         !.decode = "pending"]]
                        /\ timers' = setTimeout(timers, "load", i,
                                                LOAD_TIMEOUT_MS)
          /\ nconv' = nconv + 1
  /\ UNCHANGED <<downloads, nInputs, call>>

(***************************************************************************)
(* loadImageFromFile: the timeout callback (lines 97-101)                  *)
(***************************************************************************)
LoadTimeout(k) ==
  /\ k \in 1..Len(timers)
  /\ timers[k].kind = "load"
  /\ timerDue(timers, k)
  /\ LET i  == timers[k].ref
         c1 == [conv[i] EXCEPT !.timedOut = TRUE]
         r1 == revokeTmpUrl(page, c1)
         c2 == settleLoad(r1.page, r1.c, MSG_TIMED_OUT)
         r2 == IF conv[i].settles = 0
               THEN failConversion(r1.page, c2, MSG_TIMED_OUT)
               ELSE [page |-> r1.page, c |-> c2]
     IN /\ page' = r2.page
        /\ conv' = [conv EXCEPT ![i] = r2.c]
  /\ timers' = removeAt(timers, k)
  /\ UNCHANGED <<nconv, downloads, nInputs, call>>

(***************************************************************************)
(* loadImageFromFile: img.onload (lines 103-108), and with it the rest of  *)
(* onConvertClicked up to the await of convertImageToPng                   *)
(***************************************************************************)
\* img.onload without the timedOut test
ImgOnloadIgnoresTimedOut(i) ==
  /\ conv[i].decode = "pending"
  /\ Decodable(conv[i].loadFile)
  /\ LET c0 == [conv[i] EXCEPT !.decode = "fired"]
         r1 == revokeTmpUrl(page, c0)
         c2 == settleLoad(r1.page, r1.c, "image")
         r2 == IF c0.settles = 0
               THEN awaitConvertImageToPng(r1.page, c2, c0.loadFile,
                       NaturalWidth(c0.loadFile),
                       NaturalHeight(c0.loadFile))
               ELSE [page |-> r1.page, c |-> c2]
     IN /\ page' = r2.page
        /\ conv' = [conv EXCEPT ![i] = r2.c]
        /\ timers' = clearTimeout(timers, "load", i)
  /\ UNCHANGED <<nconv, downloads, nInputs, call>>

ImgOnload(i) ==
  /\ conv[i].decode = "pending"
  /\ Decodable(conv[i].loadFile)
  /\ LET c0 == [conv[i] EXCEPT !.decode = "fired"]
     IN IF c0.timedOut
        THEN /\ page' = page
             /\ conv' = [conv EXCEPT ![i] = c0]
             /\ timers' = timers
        ELSE LET r1 == revokeTmpUrl(page, c0)
                 c2 == settleLoad(r1.page, r1.c, "image")
                 r2 == IF c0.settles = 0
                       THEN awaitConvertImageToPng(r1.page, c2, c0.loadFile,
                               NaturalWidth(c0.loadFile),
                               NaturalHeight(c0.loadFile))
                       ELSE [page |-> r1.page, c |-> c2]
             IN /\ page' = r2.page
                /\ conv' = [conv EXCEPT ![i] = r2.c]
                /\ timers' = clearTimeout(timers, "load", i)
  /\ UNCHANGED <<nconv, downloads, nInputs, call>>

(***************************************************************************)
(* loadImageFromFile: img.onerror (lines 110-115), and with it the catch   *)
(* and finally blocks of onConvertClicked                                  *)
(***************************************************************************)
ImgOnerror(i) ==
  /\ conv[i].decode = "pending"
  /\ ~Decodable(conv[i].loadFile)
  /\ LET c0 == [conv[i] EXCEPT !.decode = "fired"]
     IN IF c0.timedOut
        THEN /\ page' = page
             /\ conv' = [conv EXCEPT ![i] = c0]
             /\ timers' = timers
        ELSE LET r1 == revokeTmpUrl(page, c0)
                 c2 == settleLoad(r1.page, r1.c, MSG_READ_FAILED)
                 r2 == IF c0.settles = 0
                       THEN failConversion(r1.page, c2, MSG_READ_FAILED)
                       ELSE [page |-> r1.page, c |-> c2]
             IN /\ page' = r2.page
                /\ conv' = [conv EXCEPT ![i] = r2.c]
                /\ timers' = clearTimeout(timers, "load", i)
  /\ UNCHANGED <<nconv, downloads, nInputs, call>>

(***************************************************************************)
(* convertImageToPng: the callback of canvas.toBlob (lines 156-165), and   *)
(* with it the rest of onConvertClicked (lines 262-278).  The callback     *)
(* settles the promise first and releases the canvas after.  downloadBlob  *)
(* arms its clean-up timer, then onConvertClicked arms the delayed reset.  *)
(***************************************************************************)
ToBlobCallback(i, hasBlob) ==
  /\ conv[i].pc = "encode"
  /\ LET c1 == [conv[i] EXCEPT !.canvasAtSettle = conv[i].canvas,
                               !.canvas = [width |-> 0, height |-> 0],
                               !.encoded = hasBlob]
     IN IF ~hasBlob
        THEN LET r == failConversion(page, c1, MSG_NO_OUTPUT)
             IN /\ page' = r.page
                /\ conv' = [conv EXCEPT ![i] = r.c]
                /\ UNCHANGED <<timers, downloads>>
        ELSE IF page.currentFile = NULL
        THEN \* currentFile.name raises a TypeError
             LET r == failConversion(page, c1, MSG_TYPE_ERROR)
             IN /\ page' = r.page
                /\ conv' = [conv EXCEPT ![i] = r.c]
                /\ UNCHANGED <<timers, downloads>>
        ELSE LET name     == IF FileName(page.currentFile) # <<>>
                             THEN FileName(page.currentFile) ELSE IMAGE
                 baseName == stripExtension(name)
                 outName  == baseName \o DOT_PNG
                 \* downloadBlob(pngBlob, outName)
                 p1 == createObjectURL(page, "download", c1.pixels)
             IN /\ page' = setLoading(p1, FALSE)
                /\ downloads' = Append(downloads,
                      [filename |-> outName, pixels |-> c1.pixels,
                       conv |-> i, url |-> page.nextUrl])
                /\ timers' = setTimeout(
                      setTimeout(timers, "download", page.nextUrl,
                                 DOWNLOAD_CLEANUP_MS),
                      "reset", i, RESET_DELAY_MS)
                /\ conv' = [conv EXCEPT ![i] =
                      [c1 EXCEPT !.pc = "done", !.outcome = "downloaded"]]
  /\ UNCHANGED <<nconv, nInputs, call>>

(***************************************************************************)
(* downloadBlob: the clean-up callback (lines 185-188)                     *)
(***************************************************************************)
DownloadCleanup(k) ==
  /\ k \in 1..Len(timers)
  /\ timers[k].kind = "download"
  /\ timerDue(timers, k)
  /\ page' = revokeObjectURL(page, timers[k].ref)
  /\ timers' = removeAt(timers, k)
  /\ UNCHANGED <<conv, nconv, downloads, nInputs, call>>

(***************************************************************************)
(* onConvertClicked: the delayed reset (lines 269-272)                     *)
(***************************************************************************)
DelayedReset(k) ==
  /\ k \in 1..Len(timers)
  /\ timers[k].kind = "reset"
  /\ timerDue(timers, k)
  /\ page' = [resetUI(page) EXCEPT !.fileInfoText = TXT_DOWNLOADED]
  /\ timers' = removeAt(timers, k)
  /\ UNCHANGED <<conv, nconv, downloads, nInputs, call>>

(***************************************************************************)
(* click on the reset button: resetUI.  The disabled property blocks the   *)
(* click; the aria-disabled attribute does not.                            *)
(***************************************************************************)
ResetClick ==
  /\ ~page.resetDisabled
  /\ page' = resetUI(page)
  /\ UNCHANGED <<conv, nconv, timers, downloads, nInputs, call>>

Next ==
  \/ \E files \in FileLists : Change(files)
  \/ \E files \in FileLists : Drop(files)
  \/ PreviewDecoded
  \/ ConvertClick
  \/ \E k \in 1..Len(timers) : LoadTimeout(k)
  \/ \E i \in ConvIds : ImgOnload(i)
  \/ \E i \in ConvIds : ImgOnerror(i)
  \/ \E i \in ConvIds : \E hasBlob \in BOOLEAN : ToBlobCallback(i, hasBlob)
  \/ \E k \in 1..Len(timers) : DownloadCleanup(k)
  \/ \E k \in 1..Len(timers) : DelayedReset(k)
  \/ ResetClick

Spec == Init /\ [][Next]_vars

(***************************************************************************)
(* The event loop runs every timer callback that is due, and the browser   *)
(* calls back from canvas.toBlob.                                          *)
(***************************************************************************)
LiveSpec ==
  /\ Spec
  /\ WF_vars(\E k \in 1..Len(timers) : LoadTimeout(k))
  /\ WF_vars(\E k \in 1..Len(timers) : DownloadCleanup(k))
  /\ WF_vars(\E k \in 1..Len(timers) : DelayedReset(k))
  /\ WF_vars(\E i \in ConvIds : \E hasBlob \in BOOLEAN :
                ToBlobCallback(i, hasBlob))

(***************************************************************************)
(* Direct calls.  validateFile, calculateTargetSize and convertImageToPng  *)
(* are functions of their arguments (convertImageToPng up to its call of   *)
(* canvas.toBlob).  SpecCalls draws the arguments of one call and applies  *)
(* the function to them.                                                   *)
(***************************************************************************)
\* the largest natural width or height drawn
MaxSide == 8000
\* every SideStep-th length up to MaxSide is drawn
SideStep == 41
\* the lengths up to SmallSide are drawn
SmallSide == 3
\* the lengths within NearMax of MAX_DIMENSION are drawn
NearMax == 8

\* the natural widths and heights drawn
Sides ==
  {n \in 0..MaxSide :
     \/ n <= SmallSide
     \/ n % SideStep = 0
     \/ (n >= MAX_DIMENSION - NearMax /\ n <= MAX_DIMENSION + NearMax)}
  \cup {NaturalWidth(f) : f \in Files} \cup {NaturalHeight(f) : f \in Files}

\* the file names drawn
ProbeNames ==
  {<<>>,
   <<"a", ".", "j", "p", "g">>,
   <<"a", ".", "J", "P", "G">>,
   <<"a", ".", "j", "p", "e", "g">>,
   <<"a", ".", "J", "p", "E", "g">>,
   <<"a", ".", "p", "n", "g">>,
   <<"a", ".", "j", "p", "g", ".", "p", "n", "g">>,
   <<"a", ".", "p", "n", "g", ".", "j", "p", "g">>,
   <<"a", ".", "j", "p", "g", "x">>,
   <<"a", ".", "j", "p">>,
   <<"a", ".", "j", "p", "g", ".">>,
   <<"a", "j", "p", "g">>,
   <<"a", ".">>,
   <<".", "j", "p", "e", "g">>,
   <<"j", "p", "g">>,
   <<"J", "P", "E", "G">>}

\* the media types drawn
ProbeTypes ==
  {"image/jpeg", "image/jpg", "image/png", "IMAGE/JPEG", "application/pdf", ""}

\* the arguments of validateFile: no file, or a File object
ValidateFileArgs ==
  {[present |-> FALSE, name |-> <<>>, type |-> ""]}
  \cup {[present |-> TRUE, name |-> n, type |-> t] :
          n \in ProbeNames, t \in ProbeTypes}

\* natural width and height of an image element
ImageArgs == {[width |-> w, height |-> h] : w \in Sides, h \in Sides}

InitCalls ==
  /\ page = initialPage(FALSE)
  /\ conv = [i \in ConvIds |-> IdleConv]
  /\ nconv = 0
  /\ timers = <<>>
  /\ downloads = <<>>
  /\ nInputs = 0
  /\ \/ \E a \in ValidateFileArgs :
          call = [fn |-> "validateFile", args |-> a, returned |-> FALSE]
     \/ \E a \in ImageArgs :
          call = [fn |-> "calculateTargetSize", args |-> a, returned |-> FALSE]
     \/ \E a \in ImageArgs :
          call = [fn |-> "convertImageToPng", args |-> a, returned |-> FALSE]

CallValidateFile ==
  /\ call.fn = "validateFile"
  /\ ~call.returned
  /\ call' = [fn |-> call.fn, args |-> call.args, returned |-> TRUE,
              result |-> validateFileObject(call.args.present,
                                            call.args.name, call.args.type)]
  /\ UNCHANGED <<page, conv, nconv, timers, downloads, nInputs>>

CallCalculateTargetSize ==
  /\ call.fn = "calculateTargetSize"
  /\ ~call.returned
  /\ call' = [fn |-> call.fn, args |-> call.args, returned |-> TRUE,
              result |-> calculateTargetSize(call.args.width,
                                             call.args.height, MAX_DIMENSION)]
  /\ UNCHANGED <<page, conv, nconv, timers, downloads, nInputs>>

\* convertImageToPng(imgElement) up to canvas.toBlob: whether the
\* precondition let the image through, and the size given to the canvas
CallConvertImageToPng ==
  /\ call.fn = "convertImageToPng"
  /\ ~call.returned
  /\ LET r == awaitConvertImageToPng(page, IdleConv, "image",
                                     call.args.width, call.args.height)
     IN call' = [fn |-> call.fn, args |-> call.args, returned |-> TRUE,
                 result |-> [accepted |-> r.c.outcome # MSG_INVALID_IMAGE,
                             canvas |-> r.c.canvas]]
  /\ UNCHANGED <<page, conv, nconv, timers, downloads, nInputs>>

NextCalls ==
  \/ CallValidateFile
  \/ CallCalculateTargetSize
  \/ CallConvertImageToPng

SpecCalls == InitCalls /\ [][NextCalls]_vars

(***************************************************************************)
(* Properties                                                              *)
(***************************************************************************)
\* invocation i has passed setLoading(true) and not reached its finally block
InFlight(i) == conv[i].pc \in {"load", "encode"}

PreviewUrls == {u \in page.urls : u.kind = "preview"}

\* the failures of the Image Loader and of the Rasterizer/Encoder
PipelineErrors ==
  {MSG_TIMED_OUT, MSG_READ_FAILED, MSG_INVALID_IMAGE, MSG_NO_OUTPUT}

\* C1: at most one conversion pipeline is in flight at any time.
C1_AtMostOnePipeline ==
  Cardinality({i \in ConvIds : InFlight(i)}) <= 1

\* C2: between the save of a successful conversion and the reset that
\* follows it there is no state in which the loader is hidden and convert
\* is enabled on the file that was just converted.
C2_NoReadyBeforeReset ==
  \A k \in 1..Len(timers) :
     timers[k].kind = "reset" =>
       ~ /\ page.loaderHidden
         /\ ~page.convertDisabled
         /\ page.currentFile = conv[timers[k].ref].pixels

\* C3: when a conversion fails in the Image Loader or the Rasterizer/Encoder,
\* the failure's message is displayed, currentFile and currentObjectUrl are
\* what they were when convert was requested, and convert is enabled.
C3_FailureKeepsSelection ==
  [][\A i \in ConvIds :
       (/\ conv[i].pc # "done"
        /\ conv'[i].pc = "done"
        /\ conv'[i].outcome \in PipelineErrors)
       => /\ page'.errorMsg = conv'[i].outcome
          /\ page'.currentFile = conv'[i].startFile
          /\ page'.currentObjectUrl = conv'[i].startUrl
          /\ ~page'.convertDisabled]_vars

\* the lists whose first file the validator does not accept
InvalidLists == {fl \in FileLists : Len(fl) # 0 /\ ~validateFile(fl[1]).ok}

\* the validator rejects files[0] in handleFiles
Rejected(p, files) ==
  /\ Len(files) # 0
  /\ ~isDuplicate(p, files[1])
  /\ ~validateFile(files[1]).ok

\* C4: a file rejected by the validator in handleFiles sets the error
\* message and leaves currentFile, currentObjectUrl and the enabled state of
\* the convert button as they were.
C4_RejectionKeepsSelection ==
  [][nInputs' # nInputs =>
       \A files \in InvalidLists :
          (Rejected(page, files) /\ (Change(files) \/ Drop(files)))
          => /\ page'.errorMsg = MSG_INVALID_FILE
             /\ page'.currentFile = page.currentFile
             /\ page'.currentObjectUrl = page.currentObjectUrl
             /\ page'.urls = page.urls
             /\ page'.convertDisabled = page.convertDisabled]_vars

\* a file has been rejected while a valid file was selected (a file that is
\* accepted clears the message)
C4_Witness ==
  /\ page.errorMsg = MSG_INVALID_FILE
  /\ page.currentFile # NULL
  /\ page.currentObjectUrl # NO_URL
  /\ ~page.convertDisabled

LoadTimerPending(i) ==
  \E k \in 1..Len(timers) : timers[k].kind = "load" /\ timers[k].ref = i

\* C5: a call of loadImageFromFile settles at most once, and once it has
\* finished exactly once, with the image, the read failure or the timeout;
\* after the timeout has fired the result is the timeout error, reported
\* once, and a decode completion or error that arrives later changes
\* nothing; after a decode completion or error the timeout is cancelled.
C5_LoadSettlesOnce ==
  /\ [](\A i \in ConvIds :
          LET c == conv[i] IN
          /\ c.settles <= 1
          /\ c.loadResult \in {"", "image", MSG_READ_FAILED, MSG_TIMED_OUT}
          /\ (c.settles = 0) <=> (c.loadResult = "")
          /\ (c.loadFile # NULL /\ c.pc # "load") => c.settles = 1
          /\ c.timedOut =>
               c.loadResult = MSG_TIMED_OUT /\ c.outcome = MSG_TIMED_OUT
          /\ c.loadResult \in {"image", MSG_READ_FAILED} =>
               ~c.timedOut /\ ~LoadTimerPending(i)
          /\ c.loadResult = MSG_READ_FAILED => c.outcome = MSG_READ_FAILED)
  /\ [][\A i \in ConvIds :
          (conv[i].timedOut /\ conv'[i].decode # conv[i].decode)
          => /\ page' = page
             /\ timers' = timers
             /\ downloads' = downloads
             /\ conv' = [conv EXCEPT ![i].decode = "fired"]]_vars

\* the timeout fired first and the decode completion arrived afterwards
C5_Witness ==
  \E i \in ConvIds :
     /\ conv[i].timedOut
     /\ conv[i].decode = "fired"
     /\ conv[i].loadResult = MSG_TIMED_OUT

\* C6: the temporary object URL of loadImageFromFile is released on every
\* outcome, exactly once per call, and no later than the promise settles.
C6_TmpUrlReleasedOnce ==
  \A i \in ConvIds :
     LET c == conv[i]
         live == \E u \in page.urls : u.id = c.tmpUrl
     IN c.loadFile # NULL =>
          /\ c.revokes <= 1
          /\ live <=> (c.revokes = 0)
          /\ c.settles >= 1 => (c.revokes = 1 /\ c.revokedAtSettle /\ ~live)
          /\ Cardinality({u \in page.urls : u.kind = "tmp" /\ u.id = c.tmpUrl})
               <= 1

\* one call ended by the timeout and another by a decode completion
C6_Witness ==
  \E i, j \in ConvIds :
     /\ conv[i].loadResult = MSG_TIMED_OUT
     /\ conv[j].loadResult = "image"
     /\ conv[i].revokes = 1
     /\ conv[j].revokes = 1

\* C7: at most one preview object URL is live, and a live preview URL is
\* held in currentObjectUrl, with a file selected, and was created from
\* that file.
C7_OnePreviewUrl ==
  /\ Cardinality(PreviewUrls) <= 1
  /\ \A u \in PreviewUrls : u.id = page.currentObjectUrl
  /\ page.currentObjectUrl # NO_URL =>
       /\ page.currentFile # NULL
       /\ \E u \in PreviewUrls :
            u.id = page.currentObjectUrl /\ u.file = page.currentFile

\* a second selection has replaced the first one's preview
C7_Witness ==
  /\ page.currentObjectUrl # NO_URL
  /\ page.currentFile = "huge"
  /\ nInputs = 2
  /\ page.nextUrl >= 3
  /\ Cardinality(PreviewUrls) = 1

\* C8: currentFile is cleared only by a manual reset or by the reset that
\* follows the successful conversion of that same file, and is otherwise
\* only replaced by a newly supplied valid file.
C8_ClearedOnlyByOwnConversion ==
  [][(page.currentFile # NULL /\ page'.currentFile # page.currentFile)
     => IF page'.currentFile = NULL
        THEN \/ ResetClick
             \/ \E k \in 1..Len(timers) :
                  /\ DelayedReset(k)
                  /\ conv[timers[k].ref].outcome = "downloaded"
                  /\ conv[timers[k].ref].startFile = page.currentFile
                  /\ conv[timers[k].ref].pixels = page.currentFile
        ELSE \E files \in FileLists :
                /\ Change(files) \/ Drop(files)
                /\ page'.currentFile = files[1]
                /\ validateFile(files[1]).ok]_vars

\* C9: while a conversion is in progress the convert button and the reset
\* button are both disabled.
C9_ControlsDisabledWhileLoading ==
  \A i \in ConvIds :
     InFlight(i) => (page.convertDisabled /\ page.resetDisabled)

\* the name with what follows its final "." removed, and ".png" appended
ExpectedPngName(name) ==
  (IF lastDot(name) > 0 THEN SubSeq(name, 1, lastDot(name) - 1) ELSE name)
    \o DOT_PNG

\* C10: the filename of every download is the name of the file whose pixels
\* were encoded, with its final extension replaced by ".png".
C10_DownloadNamedAfterPixels ==
  \A k \in 1..Len(downloads) :
     downloads[k].filename = ExpectedPngName(FileName(downloads[k].pixels))

\* a and b are the same character, or the same letter in either case
sameLetter(a, b) ==
  a = b \/ \E i \in 1..26 : {a, b} = {Upper[i], Lower[i]}

\* what follows the final "." of name is ext, in any case of its letters
HasExtension(name, ext) ==
  \E d \in 1..Len(name) :
     /\ name[d] = "."
     /\ \A j \in (d + 1)..Len(name) : name[j] # "."
     /\ Len(name) - d = Len(ext)
     /\ \A j \in 1..Len(ext) : sameLetter(name[d + j], ext[j])

\* C11: validateFile accepts a file if and only if what follows the final
\* "." of its name is jpg or jpeg in any case and its type is exactly
\* image/jpeg; every other file is rejected with the invalid-file message,
\* and a missing file with "No file".
C11_ValidateFileIff ==
  (call.fn = "validateFile" /\ call.returned) =>
     LET a == call.args IN
     IF ~a.present
     THEN call.result = [ok |-> FALSE, reason |-> MSG_NO_FILE]
     ELSE IF /\ HasExtension(a.name, JPG) \/ HasExtension(a.name, JPEG)
             /\ a.type = "image/jpeg"
     THEN call.result.ok
     ELSE call.result = [ok |-> FALSE, reason |-> MSG_INVALID_FILE]

\* MAX_DIMENSION on one axis and a smaller length on the other
C12_Witness ==
  /\ call.fn = "calculateTargetSize"
  /\ call.returned
  /\ call.args.width = MAX_DIMENSION
  /\ call.args.height = NaturalHeight("photo")
  /\ call.result = call.args

\* C12: for natural dimensions (w, h) with w <= 4096 and h <= 4096,
\* calculateTargetSize returns (w, h) unchanged.
C12_SmallSizeUnchanged ==
  (/\ call.fn = "calculateTargetSize"
   /\ call.returned
   /\ call.args.width <= MAX_DIMENSION
   /\ call.args.height <= MAX_DIMENSION)
  => call.result = [width |-> call.args.width, height |-> call.args.height]

\* |a - b|
distance(a, b) == IF a >= b THEN a - b ELSE b - a

\* the example of the claim
C13_Witness ==
  /\ call.fn = "calculateTargetSize"
  /\ call.returned
  /\ call.args = [width |-> 8000, height |-> 4000]
  /\ call.result = [width |-> 4096, height |-> 2048]

\* C13: for positive integers (w, h) with max(w, h) > 4096,
\* calculateTargetSize returns (w', h') with max(w', h') <= 4096, w' <= w,
\* h' <= h, and w', h' within 1 of w * s, h * s for
\* s = min(4096 / w, 4096 / h) = 4096 / max(w, h); 8000 x 4000 gives
\* (4096, 2048).  The distances are compared after multiplying by max(w, h).
C13_LargeSizeScaled ==
  (/\ call.fn = "calculateTargetSize"
   /\ call.returned
   /\ call.args.width >= 1
   /\ call.args.height >= 1
   /\ (call.args.width > MAX_DIMENSION \/ call.args.height > MAX_DIMENSION))
  => LET w == call.args.width
         h == call.args.height
         r == call.result
         longest == IF w >= h THEN w ELSE h
     IN /\ r.width <= MAX_DIMENSION
        /\ r.height <= MAX_DIMENSION
        /\ r.width <= w
        /\ r.height <= h
        /\ distance(r.width * longest, w * MAX_DIMENSION) <= longest
        /\ distance(r.height * longest, h * MAX_DIMENSION) <= longest
        /\ (w = 8000 /\ h = 4000) => r = [width |-> 4096, height |-> 2048]

\* C14: for every image convertImageToPng accepts (it does not fail with
\* "Invalid image for conversion."), the width and the height given to the
\* canvas are both >= 1.
C14_CanvasAtLeastOne ==
  (/\ call.fn = "convertImageToPng"
   /\ call.returned
   /\ call.result.accepted)
  => (call.result.canvas.width >= 1 /\ call.result.canvas.height >= 1)

\* the Empty state: no Selected File, no live preview URL, no error
\* message, convert disabled, loader hidden
Empty(p) ==
  /\ p.currentFile = NULL
  /\ p.currentObjectUrl = NO_URL
  /\ {u \in p.urls : u.kind = "preview"} = {}
  /\ p.previewSrc = NO_URL
  /\ p.errorMsg = ""
  /\ p.convertDisabled
  /\ p.loaderHidden

\* C15: resetUI, run in any reachable state, yields the Empty state, and
\* run again right after it leaves that state as it is.
C15_ResetYieldsEmpty ==
  /\ Empty(resetUI(page))
  /\ resetUI(resetUI(page)) = resetUI(page)

\* a manual reset has released the preview of a selection
C15_Witness ==
  /\ Empty(page)
  /\ page.nextUrl > 1
  /\ page.fileInfoText = TXT_NO_FILE_SELECTED
  /\ resetUI(page) = page

\* C16: supplying a file with the name and the byte size of the current
\* selection does nothing in handleFiles: the preview URL is neither revoked
\* nor created anew, and the Selected File and the states of the controls
\* are as before.
C16_DuplicateIsNoOp ==
  [][nInputs' # nInputs =>
       \A files \in FileLists :
          (/\ Len(files) # 0
           /\ isDuplicate(page, files[1])
           /\ Change(files) \/ Drop(files))
          => /\ handleFiles(page, files) = page
             /\ page'.currentFile = page.currentFile
             /\ page'.currentObjectUrl = page.currentObjectUrl
             /\ page'.urls = page.urls
             /\ page'.nextUrl = page.nextUrl
             /\ page'.previewSrc = page.previewSrc
             /\ page'.previewState = page.previewState
             /\ page'.convertDisabled = page.convertDisabled
             /\ page'.convertAriaBusy = page.convertAriaBusy
             /\ page'.resetDisabled = page.resetDisabled
             /\ page'.resetAriaDisabled = page.resetAriaDisabled
             /\ page'.loaderHidden = page.loaderHidden]_vars

\* two files have been supplied and one preview URL has been created
C16_Witness ==
  /\ nInputs = 2
  /\ page.currentFile # NULL
  /\ page.nextUrl = 2
  /\ page.currentObjectUrl = 1
  /\ page.fileInputValue # ""
  /\ page.errorMsg = ""

\* C17: in convertImageToPng the canvas is cleared and sized 0 x 0 on the
\* success path and on the failure path, and on each no later than the
\* promise is resolved or rejected.
C17_CanvasReleasedBeforeSettle ==
  \A i \in ConvIds :
     (conv[i].pc = "done" /\ conv[i].pixels # NULL)
     => /\ conv[i].canvas = [width |-> 0, height |-> 0]
        /\ conv[i].canvasAtSettle = [width |-> 0, height |-> 0]

\* C19: when the convert button is enabled a file is selected, and
\* onConvertClicked never shows "No file selected.".
C19_EnabledConvertHasFile ==
  /\ ~page.convertDisabled => page.currentFile # NULL
  /\ page.errorMsg # MSG_NO_FILE_SELECTED

\* a conversion has ended and has left convert enabled on the file selected
C19_Witness ==
  /\ ~page.convertDisabled
  /\ page.currentFile # NULL
  /\ page.nextUrl >= 3
  /\ \E i \in ConvIds : conv[i].pc = "done"

\* C20: every conversion whose image acquisition and PNG encoding both
\* succeed triggers exactly one download and displays no error message.
C20_SuccessDownloadsOnce ==
  \A i \in ConvIds :
     conv[i].encoded
     => /\ conv[i].outcome = "downloaded"
        /\ Cardinality({k \in 1..Len(downloads) : downloads[k].conv = i}) = 1

\* a state the user can act in: the loader hidden and reset enabled, and
\* either no selection with convert disabled (Empty of spec 4.7) or the
\* Selected File held with convert enabled
Actionable(p) ==
  /\ p.loaderHidden
  /\ ~p.resetDisabled
  /\ IF p.currentFile = NULL
     THEN p.convertDisabled /\ p.currentObjectUrl = NO_URL
     ELSE ~p.convertDisabled

\* C18: every convert request that has entered Loading leaves it, given
\* that the timers and the encoder callback fire, and where it leaves it
\* the state is actionable: Empty, or the Selected File held with convert
\* and reset enabled; no failure leaves the loader shown or the controls
\* disabled.  A request in flight has left Loading by the next state in
\* which no request is in flight, so "every request leaves" is stated as:
\* again and again no request is in flight.
C18_LoadingEnds ==
  /\ []<>(\A i \in ConvIds : ~InFlight(i))
  /\ [][\A i \in ConvIds :
          (InFlight(i) /\ conv'[i].pc = "done") => Actionable(page')]_vars
  /\ []((nconv > 0 /\ \A i \in ConvIds : ~InFlight(i)) => Actionable(page))

\* a conversion has failed and has left the file selected, convert and
\* reset enabled and the loader hidden
C18_Witness ==
  \E i \in ConvIds :
     /\ conv[i].pc = "done"
     /\ conv[i].outcome \in PipelineErrors
     /\ page.errorMsg = conv[i].outcome
     /\ page.currentFile # NULL
     /\ Actionable(page)

====
